---- MODULE Spec2Model ----
(***************************************************************************)
(* Supervisor workflow of agent-service (AgentService, its LangGraph       *)
(* StateGraph, the authenticated tool wrapper) together with the tool      *)
(* server of mcp-service (login, bearer check, calculator).                *)
(*                                                                         *)
(* One AgentService object lives for the whole behaviour; agent_invoke may *)
(* be called on it again after a run has ended.  A run is a sequence of    *)
(* node executions of the compiled graph; a worker node is split at its    *)
(* suspension points (enter, one step per tool call, finish).              *)
(***************************************************************************)
EXTENDS Integers, Sequences, FiniteSets, TLC

\* ---------------------------------------------------------------- bounds
MaxRuns == 2            \* agent_invoke calls on the one AgentService
MaxToolCalls == 2       \* tool calls the workers of one run make

\* ------------------------------------------------------------- constants
RecursionLimit == 15
ACCESS_TOKEN_EXPIRE_MINUTES == 30
SECRET_KEY == "123456"
END == "__end__"
None == "None"
NoToken == <<>>
NoHeaders == <<>>

\* ------------------------------------------------------------ tool names
math_tool_names == {"add", "subtract", "multiply", "divide", "average"}
research_tool_names == {"wiki_crawler"}
ServerTools == {"login", "logout", "wiki_crawler"} \cup math_tool_names

\* registries handed to AgentService(all_tools, llm)
Registries == {ServerTools, ServerTools \ {"login"}}

\* ------------------------------------------------------------ inputs
Queries == {"what is 12 plus 30?", "headcount of Microsoft"}
Usernames == {"", "testuser", "mallory"}
Passwords == {"", "testpassword", "wrong"}
NumberPairs == {<<12, 30>>, <<10, 2>>, <<10, 0>>}
NumberLists == {<<>>, <<2, 4, 6>>}
Companies == {"Microsoft"}
ForgedToken == <<"testuser", ACCESS_TOKEN_EXPIRE_MINUTES, "guess">>

\* what the supervisor's language model can put into Router.next
RouterOutputs == {"web_search", "math", "report_generator", "FINISH"}

\* ------------------------------------------------------------ messages
\* id 0 stands for a message that has no id yet
Msg(t, c) == [type |-> t, content |-> c, id |-> 0]
HumanMessage(c) == Msg("human", c)
AIMessage(c) == Msg("ai", c)
SystemMessage(c) == Msg("system", c)
ToolMessage(c) == Msg("tool", c)

RECURSIVE MaxId(_)
MaxId(msgs) ==
    IF msgs = <<>> THEN 0
    ELSE LET rest == MaxId(Tail(msgs)) IN
         IF Head(msgs).id > rest THEN Head(msgs).id ELSE rest

\* a message without an id gets a fresh one
RECURSIVE assign_ids(_, _)
assign_ids(msgs, fresh) ==
    IF msgs = <<>> THEN <<>>
    ELSE IF Head(msgs).id = 0
    THEN <<[Head(msgs) EXCEPT !.id = fresh]>> \o assign_ids(Tail(msgs), fresh + 1)
    ELSE <<Head(msgs)>> \o assign_ids(Tail(msgs), fresh)

\* a message whose id is already in the list replaces that entry, any other is appended
RECURSIVE merge_by_id(_, _)
merge_by_id(left, right) ==
    IF right = <<>> THEN left
    ELSE LET m == Head(right)
             hit == {i \in 1..Len(left) : left[i].id = m.id}
         IN merge_by_id(IF hit = {} THEN Append(left, m)
                        ELSE [i \in 1..Len(left) |-> IF i \in hit THEN m ELSE left[i]],
                        Tail(right))

\* the messages key without a reducer: the node's list replaces the old one
add_messages_replace(left, right) == assign_ids(right, 1 + MaxId(right))

\* add_messages reducer of State.messages
add_messages(left, right) ==
    LET base == 1 + (IF MaxId(left) > MaxId(right) THEN MaxId(left) ELSE MaxId(right))
    IN merge_by_id(left, assign_ids(right, base))

\* ------------------------------------------------------------ auth.py
fake_users_db == [u \in {"testuser"} |-> [username |-> "testuser", password |-> "testpassword"]]

NoUser == [username |-> None, password |-> None]

get_user(username) == IF username \in DOMAIN fake_users_db THEN fake_users_db[username] ELSE NoUser

\* pwd_context.verify against the stored hash of the user's password
verify_password(plain_password, user) == plain_password = user.password

\* a JWT is <<sub, exp, signing key>>
create_access_token(sub, now) == <<sub, now + ACCESS_TOKEN_EXPIRE_MINUTES, SECRET_KEY>>

Ok(v) == [ok |-> TRUE, value |-> v, error |-> ""]
Err(e) == [ok |-> FALSE, value |-> NoToken, error |-> e]

\* jwt.decode: signature and expiry, then the "sub" claim
decode_access_token(token, now) ==
    IF Len(token) = 3 /\ token[3] = SECRET_KEY /\ token[2] > now /\ token[1] # ""
    THEN Ok(<<token[1]>>)
    ELSE Err("Could not validate credentials")

get_current_user(token, now) ==
    LET payload == decode_access_token(token, now) IN
    IF ~payload.ok THEN payload
    ELSE IF get_user(payload.value[1]) = NoUser THEN Err("User not found")
    ELSE Ok(<<payload.value[1]>>)

\* ------------------------------------------------------------ calculator.py
\* results are rationals <<numerator, denominator>>
RECURSIVE Gcd(_, _)
Gcd(a, b) == IF b = 0 THEN a ELSE Gcd(b, a % b)

Abs(a) == IF a < 0 THEN -a ELSE a

Rat(p, q) ==
    LET g == Gcd(Abs(p), Abs(q))
        s == IF q < 0 THEN -1 ELSE 1
    IN IF g = 0 THEN <<0, 1>> ELSE <<s * (p \div g), s * (q \div g)>>

RECURSIVE sum(_)
sum(numbers) == IF numbers = <<>> THEN 0 ELSE Head(numbers) + sum(Tail(numbers))

calc_add(a, b) == Ok(Rat(a + b, 1))
calc_subtract(a, b) == Ok(Rat(a - b, 1))
calc_multiply(a, b) == Ok(Rat(a * b, 1))
\* divide without the test for a zero divisor
calc_divide_nocheck(a, b) == Ok(Rat(a, b))

calc_divide(a, b) == IF b = 0 THEN Err("Cannot divide by zero.") ELSE Ok(Rat(a, b))
\* the average with an integer division
calc_Average_floor(numbers) ==
    IF Len(numbers) = 0 THEN Err("The list of numbers is empty.")
    ELSE Ok(Rat(sum(numbers) \div Len(numbers), 1))

calc_Average(numbers) ==
    IF Len(numbers) = 0 THEN Err("The list of numbers is empty.")
    ELSE Ok(Rat(sum(numbers), Len(numbers)))

\* ------------------------------------------------------------ mcp_server.py
\* an Authorization header value is the sequence of its space-separated fields
BearerHeader(token) == [Authorization |-> <<"Bearer", token>>]

\* headers.get("Authorization"), startswith("Bearer "), split(" ")[1], get_current_user
require_bearer(headers, now) ==
    IF headers = NoHeaders THEN Err("Token required")
    ELSE LET auth_header == headers.Authorization IN
         IF Len(auth_header) < 2 \/ auth_header[1] # "Bearer" THEN Err("Token required")
         ELSE get_current_user(auth_header[2], now)

\* login without the password test
server_login_nopw(username, password, now) ==
    IF username = "" \/ password = "" THEN Err("Username and password are required")
    ELSE LET user == get_user(username) IN
         IF user = NoUser THEN Err("Incorrect username or password")
         ELSE Ok(create_access_token(user.username, now))

server_login(username, password, now) ==
    IF username = "" \/ password = "" THEN Err("Username and password are required")
    ELSE LET user == get_user(username) IN
         IF user = NoUser THEN Err("Incorrect username or password")
         ELSE IF ~verify_password(password, user) THEN Err("Incorrect username or password")
         ELSE Ok(create_access_token(user.username, now))

service_op(name, args) ==
    CASE name = "add" -> calc_add(args[1], args[2])
      [] name = "subtract" -> calc_subtract(args[1], args[2])
      [] name = "multiply" -> calc_multiply(args[1], args[2])
      [] name = "divide" -> calc_divide(args[1], args[2])
      [] name = "average" -> calc_Average(args)
      [] name = "wiki_crawler" -> Ok(<<"wikipedia facts">>)
      [] OTHER -> Ok(<<"logged out">>)

\* a tool that goes to the service without looking at the headers
server_call_open(name, args, headers, now) ==
    [executed |-> TRUE, current_user |-> NoToken, result |-> service_op(name, args)]

\* the body of every tool of the server except login: the bearer check, then
\* the service; executed tells whether the line calling the service was reached
server_call(name, args, headers, now) ==
    LET current_user == require_bearer(headers, now) IN
    IF ~current_user.ok
    THEN [executed |-> FALSE, current_user |-> NoToken, result |-> current_user]
    ELSE [executed |-> TRUE, current_user |-> current_user.value,
          result |-> service_op(name, args)]

\* what the caller of the tool gets
server_tool(name, args, headers, now) == server_call(name, args, headers, now).result

\* ------------------------------------------------------------ agent_service.py
VARIABLES
    all_tools,       \* AgentService.all_tools: names of the registered tools
    _access_token,   \* AgentService._access_token, read by get_token
    runs,            \* agent_invoke calls so far; also the server's clock
    status,          \* "idle", "running", "returned", "recursion_error", "route_error"
    node,            \* the node the graph executes next
    steps,           \* node executions of the current run
    state,           \* the graph's State of the current run
    prevNode,        \* the node executed last in the current run
    execCount,       \* executions of human_login and of supervisor in the current run
    phase,           \* "idle", or "agent" inside a worker's ReAct loop
    transcript,      \* the worker's working message list
    sysLen,          \* len(messages_with_system) of the worker invocation
    toolCalls,       \* tool calls made by the workers of the current run
    lastCall,        \* the wrapped tool call just made by the worker
    final_report,    \* what agent_invoke returned
    router_next,     \* response_object.next of the supervisor's last call
    prompted,        \* whether the last human_login_node asked for username and password
    srv_call,        \* the last call a client made to the tool server directly
    srv_held         \* the token that client got from the login tool

vars == <<all_tools, _access_token, runs, status, node, steps, state, prevNode,
          execCount, phase, transcript, sysLen, toolCalls, lastCall, final_report,
          router_next, prompted, srv_call, srv_held>>

srv_vars == <<srv_call, srv_held>>

agent_vars == <<all_tools, _access_token, runs, status, node, steps, state, prevNode,
                execCount, phase, transcript, sysLen, toolCalls, lastCall, final_report,
                router_next, prompted>>

Nodes == {"human_login", "supervisor", "web_search", "math", "report_generator"}
CountedNodes == {"human_login", "supervisor"}

NoInput == [args |-> <<>>, headers |-> NoHeaders]

\* a wrapped call: what the caller gave (tool_input), what reached the
\* underlying tool (args, headers; reached), whether get_token was called
NoCall == [tool |-> None, tool_input |-> NoInput, args |-> <<>>, headers |-> NoHeaders,
           read_token |-> FALSE, reached |-> FALSE, result |-> Err("")]

NoState == [messages |-> <<>>, query |-> "", company_name |-> "", access_token |-> NoToken,
            next |-> None]

get_token == _access_token

\* tools handed to the two ReAct agents
\* the research agent given every tool of the registry
research_tools_all == all_tools

research_tools == {t \in all_tools : t \in research_tool_names}
math_tools == {t \in all_tools : t \in math_tool_names}

\* the registry's tool: a call to the tool server
mcp_tool_ainvoke(name, tool_input, now) ==
    server_tool(name, tool_input.args, tool_input.headers, now)

\* _invoke without the check for a missing token
_invoke_unchecked(name, tool_input, now) ==
    LET with_headers == [tool_input EXCEPT !.headers = BearerHeader(get_token)] IN
    [tool |-> name, tool_input |-> tool_input,
     args |-> with_headers.args, headers |-> with_headers.headers,
     read_token |-> TRUE, reached |-> TRUE,
     result |-> mcp_tool_ainvoke(name, with_headers, now)]

_invoke(name, tool_input, now) ==
    LET token == get_token IN
    IF token = NoToken
    THEN [tool |-> name, tool_input |-> tool_input,
          args |-> tool_input.args, headers |-> NoHeaders,
          read_token |-> TRUE, reached |-> FALSE,
          result |-> Err("No access token available for tool call")]
    ELSE LET with_headers == [tool_input EXCEPT !.headers = BearerHeader(token)] IN
         [tool |-> name, tool_input |-> tool_input,
          args |-> with_headers.args, headers |-> with_headers.headers,
          read_token |-> TRUE, reached |-> TRUE,
          result |-> mcp_tool_ainvoke(name, with_headers, now)]

\* the arithmetic tools wrapped like every other tool
_invoke_math_with_token(name, tool_input, now) == _invoke(name, tool_input, now)

_invoke_math(name, tool_input, now) ==
    [tool |-> name, tool_input |-> tool_input,
     args |-> tool_input.args, headers |-> tool_input.headers,
     read_token |-> FALSE, reached |-> TRUE,
     result |-> mcp_tool_ainvoke(name, tool_input, now)]

wrap_authenticated_tool(name, tool_input, now) ==
    IF name \in math_tool_names THEN _invoke_math(name, tool_input, now)
    ELSE _invoke(name, tool_input, now)

\* a merge that forgets every scalar key the node did not return
Merge_forgetful(old, update) ==
    [k \in DOMAIN old |->
        IF k \in DOMAIN update
        THEN IF k = "messages" THEN add_messages(old[k], update[k]) ELSE update[k]
        ELSE IF k = "messages" THEN old[k] ELSE NoState[k]]

\* node results are merged key by key; messages go through add_messages
Merge(old, update) ==
    [k \in DOMAIN old |->
        IF k \in DOMAIN update
        THEN IF k = "messages" THEN add_messages(old[k], update[k]) ELSE update[k]
        ELSE old[k]]

\* static edges that end the run after human_login
static_edge_login_ends == [n \in {"human_login", "web_search", "math", "report_generator"} |->
                              IF n \in {"report_generator", "human_login"} THEN END
                              ELSE "supervisor"]

\* static edges that send a worker straight to the report generator
static_edge_shortcut == [n \in {"human_login", "web_search", "math", "report_generator"} |->
                            IF n = "report_generator" THEN END
                            ELSE IF n = "human_login" THEN "supervisor"
                            ELSE "report_generator"]

\* _create_graph: static edges and the supervisor's conditional edges
static_edge == [n \in {"human_login", "web_search", "math", "report_generator"} |->
                   IF n = "report_generator" THEN END ELSE "supervisor"]

path_map == [r \in {"web_search", "math", "report_generator"} |-> r]

\* the ceiling tested one execution too late
StatusAfter_late(target, executed) ==
    IF target = END THEN "returned"
    ELSE IF executed > RecursionLimit THEN "recursion_error"
    ELSE "running"

\* the engine after a node has run: stop at END, fail at the recursion limit
StatusAfter(target, executed) ==
    IF target = END THEN "returned"
    ELSE IF executed >= RecursionLimit THEN "recursion_error"
    ELSE "running"

initial_state(query) ==
    [messages |-> <<HumanMessage(query)>>, query |-> query, company_name |-> "",
     access_token |-> NoToken, next |-> None]

\* self.graph.ainvoke(initial_state, {"recursion_limit": 15})
graph_ainvoke(init) ==
    /\ status # "running"
    /\ runs < MaxRuns
    /\ runs' = runs + 1
    /\ status' = "running"
    /\ node' = "human_login"
    /\ steps' = 0
    /\ state' = Merge(NoState, init)
    /\ prevNode' = None
    /\ execCount' = [n \in CountedNodes |-> 0]
    /\ final_report' = None
    /\ toolCalls' = 0
    /\ router_next' = None
    /\ prompted' = FALSE
    /\ UNCHANGED <<all_tools, _access_token, phase, transcript, sysLen, lastCall>>
    /\ UNCHANGED srv_vars

agent_invoke == \E query \in Queries : graph_ainvoke(initial_state(query))

\* bookkeeping common to every node execution
Executed(n, target) ==
    /\ steps' = steps + 1
    /\ prevNode' = n
    /\ execCount' = [c \in CountedNodes |-> IF c = n THEN execCount[c] + 1 ELSE execCount[c]]
    /\ node' = target
    /\ status' = StatusAfter(target, steps + 1)

\* the first message taken for the report instead of the last
Returned_first(target, new_state) ==
    final_report' = IF target = END THEN new_state.messages[1].content ELSE final_report

\* agent_invoke's return value once the graph has ended
Returned(target, new_state) ==
    final_report' = IF target = END
                    THEN new_state.messages[Len(new_state.messages)].content
                    ELSE final_report

CanRun(n) == status = "running" /\ node = n /\ phase = "idle"

\* what login_tool.ainvoke can give for the entered credentials: the server's
\* answer, or a result whose JSON has no access_token
LoginResponses(username, password, now) ==
    {server_login(username, password, now), Ok(NoToken)}

\* human_login_node without the early return for a token already in the state
human_login_update_always(s, tools, response) ==
    IF "login" \notin tools
    THEN [messages |-> <<AIMessage("Error: Login tool not available.")>>, next |-> END]
    ELSE IF ~response.ok
    THEN [messages |-> <<AIMessage("Error during login: " \o response.error \o ". Please try again.")>>,
          next |-> "human_login"]
    ELSE IF response.value # NoToken
    THEN [messages |-> <<AIMessage("Successfully logged in and obtained access token.")>>,
          access_token |-> response.value]
    ELSE [messages |-> <<AIMessage("Login failed. Please try again.")>>, next |-> "human_login"]

\* the partial state human_login_node returns
human_login_update(s, tools, response) ==
    IF s.access_token # NoToken
    THEN [messages |-> <<AIMessage("Access token already available.")>>, next |-> "supervisor"]
    ELSE IF "login" \notin tools
    THEN [messages |-> <<AIMessage("Error: Login tool not available.")>>, next |-> END]
    ELSE IF ~response.ok
    THEN [messages |-> <<AIMessage("Error during login: " \o response.error \o ". Please try again.")>>,
          next |-> "human_login"]
    ELSE IF response.value # NoToken
    THEN [messages |-> <<AIMessage("Successfully logged in and obtained access token.")>>,
          access_token |-> response.value]
    ELSE [messages |-> <<AIMessage("Login failed. Please try again.")>>, next |-> "human_login"]

\* input() is reached only when the state carries no token
asks_credentials(s) == s.access_token = NoToken

\* the login tool is invoked only when a token is missing and the tool exists
login_invoked(s, tools) == s.access_token = NoToken /\ "login" \in tools

human_login_node ==
    /\ CanRun("human_login")
    /\ \E username \in Usernames, password \in Passwords :
         \E response \in LoginResponses(username, password, runs) :
            LET update == human_login_update(state, all_tools, response)
                target == static_edge["human_login"]
            IN /\ state' = Merge(state, update)
               /\ _access_token' = IF "access_token" \in DOMAIN update
                                   THEN update.access_token ELSE _access_token
               /\ lastCall' = IF login_invoked(state, all_tools)
                              THEN [NoCall EXCEPT !.tool = "login", !.reached = TRUE,
                                                  !.result = response]
                              ELSE NoCall
               /\ Executed("human_login", target)
               /\ Returned(target, state')
    /\ prompted' = asks_credentials(state)
    /\ UNCHANGED <<all_tools, runs, phase, transcript, sysLen, toolCalls, router_next>>
    /\ UNCHANGED srv_vars

\* an unknown label sent on to the report generator
route_default(decision) ==
    IF decision \in DOMAIN path_map THEN path_map[decision] ELSE "report_generator"

\* conditional edge of the supervisor: a lookup of state["next"] in the path map
route(decision) == IF decision \in DOMAIN path_map THEN path_map[decision] ELSE None

\* a supervisor that also records its decision as a message
supervisor_update_noisy(decision) ==
    [next |-> decision, messages |-> <<AIMessage("route: " \o decision)>>]

\* return {"next": response.next}
supervisor_update(decision) == [next |-> decision]

supervisor_node ==
    /\ CanRun("supervisor")
    /\ \E decision \in RouterOutputs :
          LET update == supervisor_update(decision)
              target == route(decision)
          IN IF target = None
             THEN \* KeyError in the branch: the step fails, its writes are dropped
                  /\ status' = "route_error"
                  /\ steps' = steps + 1
                  /\ prevNode' = "supervisor"
                  /\ execCount' = [execCount EXCEPT !["supervisor"] = @ + 1]
                  /\ router_next' = decision
                  /\ UNCHANGED <<state, node, final_report>>
             ELSE /\ state' = Merge(state, update)
                  /\ router_next' = decision
                  /\ Executed("supervisor", target)
                  /\ Returned(target, state')
    /\ lastCall' = NoCall
    /\ UNCHANGED <<all_tools, _access_token, runs, phase, transcript, sysLen, toolCalls, prompted>>
    /\ UNCHANGED srv_vars

report_generator_node ==
    /\ CanRun("report_generator")
    /\ LET update == [messages |-> <<AIMessage("final report")>>]
           target == static_edge["report_generator"]
       IN /\ state' = Merge(state, update)
          /\ Executed("report_generator", target)
          /\ Returned(target, state')
    /\ lastCall' = NoCall
    /\ UNCHANGED <<all_tools, _access_token, runs, phase, transcript, sysLen, toolCalls,
                   router_next, prompted>>
    /\ UNCHANGED srv_vars

\* ------------------------------------------------------------ worker nodes
system_directive(n) ==
    IF n = "web_search" THEN SystemMessage("You are a web research specialist.")
    ELSE SystemMessage("You are a mathematical calculation specialist.")

worker_tools(n) == IF n = "web_search" THEN research_tools ELSE math_tools

LlmHeaders == {NoHeaders, BearerHeader(ForgedToken)}

\* the tool inputs the worker's language model can produce for a tool
ToolInputs(name) ==
    IF name = "average" THEN {[args |-> l, headers |-> h] : l \in NumberLists, h \in LlmHeaders}
    ELSE IF name \in math_tool_names
    THEN {[args |-> p, headers |-> h] : p \in NumberPairs, h \in LlmHeaders}
    ELSE {[args |-> <<c>>, headers |-> h] : c \in Companies, h \in LlmHeaders}

\* text of the ToolMessage the ReAct agent's tool node builds from a call
tool_content(call) ==
    IF call.result.ok THEN ToString(call.result.value) ELSE "Error: " \o call.result.error

\* web_search_node / math_node up to the call of the ReAct agent
worker_enter(n) ==
    /\ CanRun(n)
    /\ transcript' = add_messages(<<>>, <<system_directive(n)>> \o state.messages)
    /\ sysLen' = 1 + Len(state.messages)
    /\ phase' = "agent"
    /\ lastCall' = NoCall
    /\ UNCHANGED <<all_tools, _access_token, runs, status, node, steps, state, prevNode,
                   execCount, toolCalls, final_report, router_next, prompted>>
    /\ UNCHANGED srv_vars

\* a tool node that lets the exception of a failed call leave the node
worker_tool_call_raises ==
    /\ status = "running" /\ phase = "agent"
    /\ toolCalls < MaxToolCalls
    /\ \E name \in worker_tools(node) :
         \E tool_input \in ToolInputs(name) :
            LET call == wrap_authenticated_tool(name, tool_input, runs) IN
            /\ lastCall' = call
            /\ transcript' = IF call.result.ok
                             THEN add_messages(transcript,
                                      <<AIMessage("tool_call"), ToolMessage(tool_content(call))>>)
                             ELSE add_messages(transcript, <<AIMessage("tool_call")>>)
            /\ status' = IF call.result.ok THEN status ELSE "tool_error"
    /\ toolCalls' = toolCalls + 1
    /\ UNCHANGED <<all_tools, _access_token, runs, node, steps, state, prevNode,
                   execCount, phase, sysLen, final_report, router_next, prompted>>
    /\ UNCHANGED srv_vars

\* one round of the ReAct agent: the model asks for a tool, the wrapper runs it
worker_tool_call ==
    /\ status = "running" /\ phase = "agent"
    /\ toolCalls < MaxToolCalls
    /\ \E name \in worker_tools(node) :
         \E tool_input \in ToolInputs(name) :
            LET call == wrap_authenticated_tool(name, tool_input, runs) IN
            /\ lastCall' = call
            /\ transcript' = add_messages(transcript,
                                 <<AIMessage("tool_call"), ToolMessage(tool_content(call))>>)
    /\ toolCalls' = toolCalls + 1
    /\ UNCHANGED <<all_tools, _access_token, runs, status, node, steps, state, prevNode,
                   execCount, phase, sysLen, final_report, router_next, prompted>>
    /\ UNCHANGED srv_vars

\* the whole result of the ReAct agent handed back
new_messages_all(result_messages, n) == result_messages

\* result["messages"][len(messages_with_system):]
new_messages(result_messages, n) == SubSeq(result_messages, n + 1, Len(result_messages))

\* the ReAct agent answers; the node returns its new messages
worker_finish ==
    /\ status = "running" /\ phase = "agent"
    /\ LET result == add_messages(transcript, <<AIMessage("worker answer")>>)
           update == [messages |-> new_messages(result, sysLen)]
           target == static_edge[node]
       IN /\ state' = Merge(state, update)
          /\ Executed(node, target)
          /\ Returned(target, state')
    /\ phase' = "idle"
    /\ transcript' = <<>>
    /\ sysLen' = 0
    /\ lastCall' = NoCall
    /\ UNCHANGED <<all_tools, _access_token, runs, toolCalls, router_next, prompted>>
    /\ UNCHANGED srv_vars

web_search_node == worker_enter("web_search")
math_node == worker_enter("math")

\* ------------------------------------------------------------ direct calls to the tool server
Dividends == {-7, 0, 1, 10}
Divisors == {-2, 0, 2, 3}

NoSrvCall == [tool |-> None, args |-> <<>>, headers |-> NoHeaders,
              executed |-> FALSE, current_user |-> NoToken, result |-> Err("")]

\* a token of testuser that is past its expiry
StaleToken == <<"testuser", -1, SECRET_KEY>>

\* a token signed with the server's key for a name that is not in fake_users_db
StrangerToken == <<"mallory", ACCESS_TOKEN_EXPIRE_MINUTES, SECRET_KEY>>

\* headers a client can send: none, its token as bearer, a token it made up,
\* an expired token, a token of an unknown user, its token under another scheme
ClientHeaders(held) ==
    {NoHeaders, BearerHeader(held), BearerHeader(ForgedToken), BearerHeader(StaleToken),
     BearerHeader(StrangerToken), [Authorization |-> <<"Basic", held>>]}

ServerArgs(name) ==
    CASE name = "divide" -> {<<a, b>> : a \in Dividends, b \in Divisors}
      [] name = "average" -> NumberLists \cup {<<1, 2>>, <<-3>>}
      [] name \in {"add", "subtract", "multiply"} -> NumberPairs
      [] name = "wiki_crawler" -> {<<c>> : c \in Companies}
      [] OTHER -> {<<>>}

\* the login tool called by a client
mcp_login ==
    /\ \E username \in Usernames, password \in Passwords :
          LET result == server_login(username, password, runs) IN
          /\ srv_call' = [tool |-> "login", args |-> <<username, password>>,
                          headers |-> NoHeaders, executed |-> TRUE,
                          current_user |-> NoToken, result |-> result]
          /\ srv_held' = IF result.ok THEN result.value ELSE srv_held
    /\ UNCHANGED agent_vars

\* any other tool of the server called by a client
mcp_call_tool ==
    /\ \E name \in ServerTools \ {"login"} :
         \E args \in ServerArgs(name), headers \in ClientHeaders(srv_held) :
            LET call == server_call(name, args, headers, runs) IN
            srv_call' = [tool |-> name, args |-> args, headers |-> headers,
                         executed |-> call.executed, current_user |-> call.current_user,
                         result |-> call.result]
    /\ UNCHANGED <<srv_held>>
    /\ UNCHANGED agent_vars

\* ------------------------------------------------------------ specifications
\* the state of a new AgentService, but for its registry
InitService ==
    /\ _access_token = NoToken
    /\ runs = 0
    /\ status = "idle"
    /\ node = None
    /\ steps = 0
    /\ state = NoState
    /\ prevNode = None
    /\ execCount = [n \in CountedNodes |-> 0]
    /\ phase = "idle"
    /\ transcript = <<>>
    /\ sysLen = 0
    /\ toolCalls = 0
    /\ lastCall = NoCall
    /\ final_report = None
    /\ router_next = None
    /\ prompted = FALSE
    /\ srv_call = NoSrvCall
    /\ srv_held = NoToken

Init == all_tools \in Registries /\ InitService

Next ==
    \/ agent_invoke
    \/ human_login_node
    \/ supervisor_node
    \/ web_search_node
    \/ math_node
    \/ worker_tool_call
    \/ worker_finish
    \/ report_generator_node

Spec == Init /\ [][Next]_vars

\* The compiled graph driven by a caller that supplies the initial state
\* itself, so a run can start with access_token already in the state.
PresetToken == create_access_token("testuser", 0)

InitialStates ==
    {[initial_state(query) EXCEPT !.access_token = t] :
        query \in Queries, t \in {NoToken, PresetToken}}

graph_invoke == \E init \in InitialStates : graph_ainvoke(init)

NextGraph ==
    \/ graph_invoke
    \/ human_login_node
    \/ supervisor_node
    \/ web_search_node
    \/ math_node
    \/ worker_tool_call
    \/ worker_finish
    \/ report_generator_node

SpecGraph == Init /\ [][NextGraph]_vars

\* AgentService built on other registries: none, tools missing, a tool of
\* another server among them.
OtherRegistries ==
    {{},
     {"login", "logout", "shell", "wiki_crawler", "add"},
     {"logout", "shell", "divide", "average"}}

InitRegistry == all_tools \in OtherRegistries /\ InitService

SpecRegistry == InitRegistry /\ [][Next]_vars

\* The tool server on its own, called by a client that may hold a token.
NextServer ==
    \/ mcp_login
    \/ mcp_call_tool

SpecServer == Init /\ [][NextServer]_vars

TypeOK ==
    /\ steps \in 0..RecursionLimit
    /\ status \in {"idle", "running", "returned", "recursion_error", "route_error"}

\* ------------------------------------------------------------ properties
LastMessage == state.messages[Len(state.messages)]

\* the message the first human_login execution of the run appended
FirstLoginMessage == state.messages[2].content

LoginErrors == {"Username and password are required", "Incorrect username or password"}

LoginFailureContents ==
    {"Login failed. Please try again."} \cup
    {"Error during login: " \o e \o ". Please try again." : e \in LoginErrors}

\* every step inside a run moves this measure up
Measure == (MaxToolCalls + 2) * steps + toolCalls + (IF phase = "agent" THEN 1 ELSE 0)

\* C1: a run never executes more than 15 nodes; a run that still has a node to
\* execute after 15 executions ends with the recursion-limit failure and returns
\* no report; every step of a run makes progress towards that ceiling, so no
\* run goes on forever.
C1_StepCeiling ==
    /\ [](/\ steps <= RecursionLimit
          /\ (status = "running" => steps < RecursionLimit)
          /\ (status = "recursion_error" =>
                 steps = RecursionLimit /\ node # END /\ final_report = None))
    /\ [][(status = "running" /\ status' = "running") => Measure' > Measure]_vars

C1_Witness == status = "recursion_error" /\ steps = RecursionLimit /\ prevNode = "math"

\* C2 (as claimed): after human_login ran and the login tool failed (no token
\* in the result, or it raised), the node executed next is human_login again.
C2_LoginFailureLoopsBack ==
    (status = "running" /\ prevNode = "human_login"
        /\ LastMessage.content \in LoginFailureContents)
    => node = "human_login"

\* C3 (as claimed): in a run whose first login attempt failed, the supervisor
\* executes only after human_login has executed twice and the token is stored.
C3_SecondAttemptBeforeSupervisor ==
    (status # "idle" /\ Len(state.messages) >= 2
        /\ FirstLoginMessage \in LoginFailureContents
        /\ execCount["supervisor"] >= 1)
    => (execCount["human_login"] = 2 /\ state.access_token # NoToken)

\* C4 (as claimed): with no tool named login in the registry the run ends
\* before the supervisor or any worker has executed.
C4_NoLoginToolEndsRun ==
    (status # "idle" /\ "login" \notin all_tools /\ prevNode # None)
    => (execCount["supervisor"] = 0 /\ phase = "idle")

\* C5: a wrapped call of a tool outside the five arithmetic tools, made while
\* no credential is set, fails with the missing-token error and never reaches
\* the underlying tool.
C5_NoTokenNoCall ==
    (phase = "agent" /\ lastCall.tool \in research_tool_names /\ _access_token = NoToken)
    => /\ ~lastCall.reached
       /\ ~lastCall.result.ok
       /\ lastCall.result.error = "No access token available for tool call"

C5_Witness ==
    /\ phase = "agent" /\ lastCall.tool = "wiki_crawler" /\ _access_token = NoToken
    /\ tool_content(lastCall) = "Error: No access token available for tool call"

C7_DecisionInLabelSet ==
    (prevNode = "supervisor" /\ status # "idle")
    => IF router_next \in {"web_search", "math", "report_generator"}
       THEN /\ status # "route_error"
            /\ state.next = router_next
            /\ (status = "running" => node = router_next)
       ELSE /\ status = "route_error"
            /\ node = "supervisor"
            /\ final_report = None

C7_Witness == prevNode = "supervisor" /\ router_next = "FINISH" /\ status = "route_error"

\* C8: a human_login execution entered with a credential in the state asks for
\* nothing, does not call the login tool, leaves the credential as it is, and
\* is followed by the supervisor.
C8_LoginIdempotent ==
    [][(CanRun("human_login") /\ state.access_token # NoToken /\ steps' = steps + 1)
        => /\ ~prompted'
           /\ lastCall'.tool # "login"
           /\ state'.access_token = state.access_token
           /\ _access_token' = _access_token
           /\ node' = "supervisor"
           /\ status' = "running"]_vars

C8_Witness ==
    /\ prevNode = "human_login" /\ state.access_token = PresetToken
    /\ LastMessage.content = "Access token already available."
    /\ node = "supervisor"

\* C9 (as claimed): with a valid credential held, add(12, 30) called by the
\* arithmetic worker through the wrapper comes back from the server as 42.
C9_AddReturns42 ==
    (phase = "agent" /\ node = "math" /\ lastCall.tool = "add"
        /\ lastCall.tool_input.args = <<12, 30>>
        /\ get_current_user(_access_token, runs).ok)
    => (lastCall.result.ok /\ lastCall.result.value = <<42, 1>>)

\* a signed token, as opposed to a header the language model made up
IsIssuedToken(t) == Len(t) = 3 /\ t[3] = SECRET_KEY

\* C10 (as claimed): a worker's tool call carries a token only if it is the
\* token this run's own login obtained.
C10_TokenOnlyInOwnRun ==
    (phase = "agent" /\ lastCall.reached /\ lastCall.headers # NoHeaders
        /\ IsIssuedToken(lastCall.headers.Authorization[2]))
    => lastCall.headers.Authorization[2] = state.access_token

\* C11: within a run the state's access_token is empty until a human_login
\* execution got a token from the login tool and stored it, and once it is set
\* no later node execution clears or changes it.
C11_CredentialSetOnce ==
    /\ [][(runs' = runs /\ state.access_token = NoToken /\ state'.access_token # NoToken)
            => /\ CanRun("human_login")
               /\ lastCall'.tool = "login" /\ lastCall'.result.ok
               /\ state'.access_token = lastCall'.result.value]_vars
    /\ [][(runs' = runs /\ state.access_token # NoToken)
            => state'.access_token = state.access_token]_vars
    /\ [](status = "running" /\ prevNode = None => state.access_token = NoToken)

C11_Witness ==
    /\ state.access_token # NoToken /\ prevNode = "report_generator"
    /\ steps = RecursionLimit

IsPrefix(a, b) == Len(a) <= Len(b) /\ SubSeq(b, 1, Len(a)) = a

\* C12: within a run every node execution leaves the old message list as a
\* prefix of the new one: messages are only appended, never reordered,
\* replaced or deleted.
C12_MessagesAppendOnly ==
    [][runs' = runs => IsPrefix(state.messages, state'.messages)]_vars

C12_Witness ==
    /\ Len(state.messages) >= 6
    /\ \E i \in 1..Len(state.messages) : state.messages[i].type = "tool"
    /\ prevNode = "report_generator"

\* C13: a run returns only out of a report_generator execution; the message
\* that execution appended is then the last one in the state, and the text
\* agent_invoke returns is the content of that message.
C13_ReportIsLast ==
    /\ [](status = "returned"
            => /\ prevNode = "report_generator"
               /\ LastMessage = [type |-> "ai", content |-> "final report",
                                 id |-> LastMessage.id]
               /\ final_report = LastMessage.content)
    /\ [][(status = "running" /\ status' = "returned")
            => /\ CanRun("report_generator")
               /\ Len(state'.messages) = Len(state.messages) + 1
               /\ IsPrefix(state.messages, state'.messages)]_vars

C13_Witness ==
    /\ status = "returned" /\ final_report = "final report"
    /\ Len(state.messages) >= 4

\* C14: while a worker runs, its working list is its system directive, then
\* the shared history, then what it has generated; when it returns, the shared
\* list becomes the old history followed by exactly the generated messages and
\* the worker's answer, with no message twice and no system directive in it.
C14_WorkerMergesOwnMessages ==
    /\ [](phase = "agent"
            => /\ Len(transcript) > Len(state.messages)
               /\ transcript[1].type = "system"
               /\ \A i \in 1..Len(state.messages) : transcript[i + 1] = state.messages[i])
    /\ [][(phase = "agent" /\ phase' = "idle")
            => /\ Len(state'.messages) = Len(transcript)
               /\ \A i \in 2..Len(transcript) : state'.messages[i - 1] = transcript[i]
               /\ state'.messages[Len(transcript)].type = "ai"
               /\ state'.messages[Len(transcript)].content = "worker answer"]_vars
    /\ [](\A i \in 1..Len(state.messages) :
             /\ state.messages[i].type # "system"
             /\ \A j \in 1..Len(state.messages) :
                   state.messages[i].id = state.messages[j].id => i = j)

C14_Witness ==
    /\ prevNode = "math" /\ phase = "idle" /\ Len(state.messages) >= 7
    /\ state.messages[Len(state.messages) - 1].type = "tool"
    /\ state.messages[Len(state.messages) - 3].type = "tool"

\* C15: when a worker calls an authenticated tool while no credential is
\* stored, the call fails alone: the step changes neither the run's status nor
\* its node nor the shared state, the failure is the text of a tool message in
\* the worker's working list, the worker can still give its answer, and its
\* return hands the error text to the shared history with the run going on.
NoCredentialCall ==
    phase = "agent" /\ lastCall.tool \in research_tool_names /\ _access_token = NoToken

C15_MissingCredentialIsToolError ==
    /\ [](NoCredentialCall
            => /\ status = "running"
               /\ transcript[Len(transcript)] =
                     [type |-> "tool",
                      content |-> "Error: No access token available for tool call",
                      id |-> transcript[Len(transcript)].id])
    /\ [][(toolCalls' = toolCalls + 1 /\ NoCredentialCall')
            => /\ phase = "agent"
               /\ UNCHANGED <<status, node, steps, state, prevNode, final_report>>]_vars
    /\ [][(NoCredentialCall /\ phase' = "idle")
            => /\ status' \in {"running", "recursion_error"}
               /\ prevNode' = node
               /\ \E i \in 1..Len(state'.messages) :
                     /\ state'.messages[i].type = "tool"
                     /\ state'.messages[i].content =
                           "Error: No access token available for tool call"]_vars

C15_Witness ==
    /\ prevNode = "web_search" /\ status = "running" /\ node = "supervisor"
    /\ _access_token = NoToken
    /\ state.messages[Len(state.messages) - 1].content =
          "Error: No access token available for tool call"
    /\ LastMessage.content = "worker answer"

\* C16: node executions of a run are ordered: human_login is the first; a
\* worker executes only right after a supervisor execution that chose it, and
\* the next node after it is the supervisor; report_generator executes only
\* right after a supervisor decision for it, and the run then returns with no
\* further node execution.  As stated, the supervisor execution after a worker
\* always takes place; as amended, it takes place unless the worker was the
\* run's 15th node execution, where the run ends with the recursion-limit
\* failure instead.
Workers == {"web_search", "math"}

NodeExecuted == steps' = steps + 1

C16_Frame ==
    /\ [][(NodeExecuted /\ steps = 0) => prevNode' = "human_login"]_vars
    /\ [](phase = "agent"
            => /\ node \in Workers /\ prevNode = "supervisor"
               /\ router_next = node /\ state.next = node)
    /\ [][(NodeExecuted /\ prevNode' \in Workers)
            => /\ phase = "agent" /\ prevNode = "supervisor"
               /\ router_next = prevNode']_vars
    /\ [][(NodeExecuted /\ prevNode \in Workers) => prevNode' = "supervisor"]_vars
    /\ [][(NodeExecuted /\ prevNode' = "report_generator")
            => /\ prevNode = "supervisor" /\ router_next = "report_generator"
               /\ state.next = "report_generator"]_vars
    /\ [](prevNode = "report_generator" => status = "returned" /\ node = END)
    /\ [][prevNode = "report_generator" => ~NodeExecuted]_vars

C16_OriginalOrder ==
    /\ C16_Frame
    /\ [](prevNode \in Workers => node = "supervisor" /\ status = "running")

C16_NodeOrder ==
    /\ C16_Frame
    /\ [](prevNode \in Workers
            => /\ node = "supervisor"
               /\ \/ status = "running" /\ steps < RecursionLimit
                  \/ status = "recursion_error" /\ steps = RecursionLimit)

C16_Witness ==
    /\ prevNode \in Workers /\ steps = RecursionLimit /\ status = "recursion_error"
    /\ node = "supervisor" /\ execCount["supervisor"] = 7

\* C17: a supervisor execution leaves the messages, the query, the company
\* name and the credential of the shared state as they were; when the graph
\* takes its result, the routing field holds the decision of this execution,
\* whatever it held before.
C17_SupervisorWritesOnlyNext ==
    /\ [][(NodeExecuted /\ CanRun("supervisor"))
            => /\ prevNode' = "supervisor"
               /\ \A k \in DOMAIN state \ {"next"} : state'[k] = state[k]
               /\ DOMAIN state' = DOMAIN state
               /\ _access_token' = _access_token]_vars
    /\ [][(NodeExecuted /\ CanRun("supervisor") /\ status' # "route_error")
            => /\ router_next' \in DOMAIN path_map
               /\ state'.next = router_next'
               /\ state' = [state EXCEPT !.next = router_next']]_vars

C17_Witness ==
    /\ prevNode = "supervisor" /\ execCount["supervisor"] = 2
    /\ state.next = "math" /\ router_next = "math" /\ status = "running"
    /\ state.access_token # NoToken /\ Len(state.messages) >= 4

\* C18: in every state of a run the routing field is unset or one of
\* web_search, math, report_generator, human_login, END (as stated); as
\* amended, the set also holds supervisor, which human_login writes when it is
\* entered with a credential already in the state.  A decision of the
\* supervisor outside its three labels never stays in the state.
ClosedRoutes == {"web_search", "math", "report_generator", "human_login", END}

C19_QueryImmutable ==
    /\ [][runs' # runs
            => /\ state'.query \in Queries
               /\ state'.messages =
                     <<[type |-> "human", content |-> state'.query,
                        id |-> state'.messages[1].id]>>]_vars
    /\ [][runs' = runs => state'.query = state.query]_vars
    /\ [](status # "idle"
            => /\ state.query \in Queries
               /\ state.messages[1].type = "human"
               /\ state.messages[1].content = state.query)

C19_Witness ==
    /\ status = "returned" /\ runs = 2 /\ steps >= 6
    /\ state.query = "what is 12 plus 30?" /\ state.messages[1].content = state.query
    /\ toolCalls = 2

\* C20: a divide call that reaches the calculator fails with the division
\* error and gives no value when the divisor is 0, whatever the dividend, and
\* gives the exact quotient a/b when it is not; divide(10, 2) is 5.  No divide
\* call with divisor 0 gives a value.
C20_DivideContract ==
    srv_call.tool = "divide"
    => LET a == srv_call.args[1]
           b == srv_call.args[2]
           r == srv_call.result
       IN /\ b = 0 => ~r.ok /\ r.value = NoToken
          /\ require_bearer(srv_call.headers, runs).ok
                => IF b = 0
                   THEN r = Err("Cannot divide by zero.")
                   ELSE /\ r.ok /\ r.error = ""
                        /\ r.value[2] > 0
                        /\ r.value[1] * b = a * r.value[2]
                        /\ (a = 10 /\ b = 2) => r.value = <<5, 1>>

C20_Witness ==
    /\ srv_call.tool = "divide" /\ srv_call.args = <<10, 2>>
    /\ srv_held # NoToken /\ srv_call.headers = BearerHeader(srv_held)
    /\ srv_call.result = Ok(<<5, 1>>)

\* C21: an average call that reaches the calculator fails with the empty-input
\* error and gives no value when the list is empty, and gives the sum of the
\* elements divided by their count when it is not; average([2, 4, 6]) is 4.
\* No average call with an empty list gives a value.
RECURSIVE Total(_)
Total(s) == IF Len(s) = 0 THEN 0 ELSE Total(SubSeq(s, 1, Len(s) - 1)) + s[Len(s)]

C21_AverageContract ==
    srv_call.tool = "average"
    => LET numbers == srv_call.args
           r == srv_call.result
       IN /\ numbers = <<>> => ~r.ok /\ r.value = NoToken
          /\ require_bearer(srv_call.headers, runs).ok
                => IF numbers = <<>>
                   THEN r = Err("The list of numbers is empty.")
                   ELSE /\ r.ok /\ r.error = ""
                        /\ r.value[2] > 0
                        /\ r.value[1] * Len(numbers) = Total(numbers) * r.value[2]
                        /\ numbers = <<2, 4, 6>> => r.value = <<4, 1>>

C21_Witness ==
    /\ srv_call.tool = "average" /\ srv_call.args = <<2, 4, 6>>
    /\ srv_held # NoToken /\ srv_call.headers = BearerHeader(srv_held)
    /\ srv_call.result = Ok(<<4, 1>>)

\* C22 (as claimed): in every state of a run the token the wrapper reads is
\* the state's access_token, both unset or both set and equal; so a call of an
\* authenticated tool made after a login of the run carries that login's token
\* as bearer.
C22_WrapperAgreesWithState ==
    /\ status # "idle" => get_token = state.access_token
    /\ (phase = "agent" /\ lastCall.tool \in research_tool_names
            /\ state.access_token # NoToken)
          => /\ lastCall.reached
             /\ lastCall.headers = BearerHeader(state.access_token)

HasBearer(h) ==
    /\ h # NoHeaders
    /\ Len(h.Authorization) = 2
    /\ h.Authorization[1] = "Bearer"

Decodable(t, now) == IsIssuedToken(t) /\ t[2] > now /\ t[1] # ""

AuthFailure(h, now) ==
    IF ~HasBearer(h) THEN "Token required"
    ELSE IF ~Decodable(h.Authorization[2], now) THEN "Could not validate credentials"
    ELSE IF h.Authorization[2][1] \notin {"testuser"} THEN "User not found"
    ELSE ""

C25_WorkerToolSubsets ==
    /\ research_tools \subseteq {"wiki_crawler"} \cap all_tools
    /\ math_tools \subseteq {"add", "subtract", "multiply", "divide", "average"} \cap all_tools
    /\ (phase = "agent" /\ lastCall.tool # None)
          => /\ lastCall.tool \in all_tools
             /\ lastCall.tool \notin {"login", "logout", "shell"}
             /\ node = "web_search" => lastCall.tool = "wiki_crawler"
             /\ node = "math"
                   => lastCall.tool \in {"add", "subtract", "multiply", "divide", "average"}
    /\ lastCall.tool \in {"login", "logout", "shell"}
          => lastCall.tool = "login" /\ prevNode = "human_login"

C25_Witness ==
    /\ all_tools = {"logout", "shell", "divide", "average"}
    /\ phase = "agent" /\ node = "math" /\ lastCall.tool = "divide"
    /\ execCount["supervisor"] = 2

\* C26: the login tool gives a token exactly when username and password are
\* both non-empty, the username is that of a known user and the password is
\* that user's; the token is signed, names that user and expires 30 minutes
\* later.  Every other login call fails and gives no token.  A token the tool
\* gave for a user, sent as bearer before it expires, passes the check of the
\* other tools as that user.
C26_LoginIssuesToken ==
    /\ srv_call.tool = "login"
          => LET username == srv_call.args[1]
                 password == srv_call.args[2]
                 r == srv_call.result
             IN IF username = "testuser" /\ password = "testpassword"
                THEN /\ r.ok
                     /\ r.value = <<username, runs + 30, SECRET_KEY>>
                     /\ srv_held = r.value
                ELSE /\ ~r.ok
                     /\ r.value = NoToken
                     /\ r.error = IF username = "" \/ password = ""
                                  THEN "Username and password are required"
                                  ELSE "Incorrect username or password"
    /\ srv_held # NoToken => IsIssuedToken(srv_held) /\ srv_held[1] = "testuser"
    /\ (srv_call.tool \notin {None, "login"} /\ srv_held # NoToken
            /\ srv_call.headers = BearerHeader(srv_held) /\ srv_held[2] > runs)
          => /\ srv_call.executed
             /\ srv_call.current_user = <<srv_held[1]>>

C26_Witness ==
    /\ srv_call.tool = "logout" /\ srv_held = <<"testuser", 30, SECRET_KEY>>
    /\ srv_call.headers = BearerHeader(srv_held)
    /\ srv_call.executed /\ srv_call.current_user = <<"testuser">>
    /\ srv_call.result.ok

====
